---------------------------- MODULE Spec2Model ----------------------------
(***************************************************************************)
(* ksp-telemetry.py: a single-threaded script.  It parses its arguments    *)
(* (opening the telemetry file and the --out target), checks the one       *)
(* dependent-flag rule, loads the CSV into a column table, draws four or   *)
(* six charts inside a try/except KeyError block, then saves and/or shows  *)
(* the figure.  The model follows the script statement by statement; pc    *)
(* is the position in the script.                                          *)
(***************************************************************************)
EXTENDS Integers, Sequences, FiniteSets, TLC

(***************************************************************************)
(* Bounds of the model.                                                    *)
(***************************************************************************)
\* data rows of the files run through the whole pipeline
MaxRows == 5
\* columns / data rows of the small files that exercise the loader freely
MaxLoadCols == 2
MaxLoadRows == 2
\* data rows of the files whose TimeSinceMark / AoA cells vary freely
MaxAoaRows == 4
\* data rows of the files whose DeltaVExpended / SpeedOrbital cells vary freely
MaxDvRows == 2

(***************************************************************************)
(* The script's None (args.title, args.out when the option is not passed). *)
(***************************************************************************)
None == "<None>"

(***************************************************************************)
(* Column names the rendering block looks up (lines 87-130).               *)
(***************************************************************************)
BaseColumns ==
    <<"DownRange", "AltitudeASL", "TimeSinceMark", "Acceleration", "SpeedOrbital", "Q">>
VerboseColumns == <<"AoA", "DeltaVExpended">>
AllColumns == BaseColumns \o VerboseColumns

Range(s) == {s[i] : i \in DOMAIN s}

(***************************************************************************)
(* Python float arithmetic (IEEE-754 binary64, round to nearest) on the    *)
(* values the input files produce: nan, +inf/-inf, and the finite values   *)
(* hi * 2^60 + lo with hi and lo small integers, one of them 0.  Floats   *)
(* near 2^60 are at least 128 apart, so a sum with a 2^60 part rounds to   *)
(* that part; every other sum of these values is exact.                    *)
(***************************************************************************)
Fin(n) == [k |-> "fin", hi |-> 0, lo |-> n]
Huge(h) == [k |-> "fin", hi |-> h, lo |-> 0]
PosInf == [k |-> "inf", hi |-> 1, lo |-> 0]
NaN == [k |-> "nan", hi |-> 0, lo |-> 0]

FNeg(a) == [k |-> a.k, hi |-> -a.hi, lo |-> -a.lo]

FAdd(a, b) ==
    IF a.k = "nan" \/ b.k = "nan" THEN NaN
    ELSE IF a.k = "inf" /\ b.k = "inf" THEN (IF a.hi = b.hi THEN a ELSE NaN)
    ELSE IF a.k = "inf" THEN a
    ELSE IF b.k = "inf" THEN b
    ELSE IF a.hi + b.hi # 0 THEN Huge(a.hi + b.hi)
    ELSE Fin(a.lo + b.lo)

FSub(a, b) == FAdd(a, FNeg(b))

\* x / 1000 (lines 87-88, 109); the quotient is kept as a pair
Km(x) == [num |-> x, den |-> 1000]

(***************************************************************************)
(* float(val), line 69, on the cell texts the input files are drawn from.  *)
(* float() strips blanks, accepts "inf" and "nan", reads several spellings *)
(* as one number, and raises ValueError on anything else, the empty cell   *)
(* included.  TwoTo60 is the decimal spelling of 2^60.                     *)
(***************************************************************************)
TwoTo60 == "1152921504606846976"
NumericTexts == {"0", "1", "1.0", " 1", TwoTo60, "inf", "nan"}

IsNumeric(t) == t \in NumericTexts

ParseFloat(t) ==
    CASE t = "0" -> Fin(0)
      [] t \in {"1", "1.0", " 1"} -> Fin(1)
      [] t = TwoTo60 -> Huge(1)
      [] t = "inf" -> PosInf
      [] t = "nan" -> NaN

(***************************************************************************)
(* State.                                                                  *)
(***************************************************************************)
VARIABLES
    pc,              \* position in the script
    args,            \* the argparse namespace: title, verbose, out, no_view
    telemetry_file,  \* rows of TELEMETRY_FILE as csv.reader yields them
    telemetry_handle,\* args.telemetry: "unopened", "open" or "closed"
    out_handle,      \* args.out: "unopened", "open" or "closed"
    out_file,        \* content of the OUTPUT path: "absent", "prior", "empty", "image"
    rows_read,       \* rows of the telemetry file the reader has consumed
    headers,         \* headers (line 68)
    raw_data,        \* raw_data (line 69)
    telemetry_data,  \* telemetry_data (lines 70-71)
    fig,             \* the matplotlib figure
    stdout,          \* lines printed to standard output
    stderr,          \* lines printed to standard error
    events,          \* file and figure side effects, in order
    exit_status,     \* {} while running, {n} once the process exited with n
    uncaught         \* name of the exception that ended the process, or None

vars == <<pc, args, telemetry_file, telemetry_handle, out_handle, out_file,
          rows_read, headers, raw_data, telemetry_data, fig, stdout, stderr,
          events, exit_status, uncaught>>

(***************************************************************************)
(* Messages (lines 58-65, 138, 144, 149, 152).                             *)
(***************************************************************************)
UsageLine == "usage: ksp-telemetry.py"
NoViewDiagnostic == "error: argument --no-view: requires argument --out"
Banner == "KSP Telemetry Grapher v1.2.1"
LoadingMessage == "Loading Mechjeb telemetry file"
KeyErrorMessage == "Error: could not find correct data entries in the file passed!"
SavingMessage == "Saving graph to"
PreviewMessage == "Opening preview"
DoneMessage == "Done"
Traceback == "Traceback (most recent call last)"

(***************************************************************************)
(* The loader, lines 67-71.                                                *)
(***************************************************************************)
RowParses(line) == \A i \in DOMAIN line : IsNumeric(line[i])

ParseRow(line) == [i \in DOMAIN line |-> ParseFloat(line[i])]

\* the data rows of the file: everything after the header row
DataRows(file) == SubSeq(file, 2, Len(file))

\* index (among the data rows) of the first row float() rejects, 0 if none
FirstBadRow(rows) ==
    IF \A j \in DOMAIN rows : RowParses(rows[j]) THEN 0
    ELSE CHOOSE j \in DOMAIN rows :
             /\ ~RowParses(rows[j])
             /\ \A h \in 1..(j - 1) : RowParses(rows[h])

\* tuple(tuple(float(val) for val in line) for line in reader)
ParseRows(rows) == [j \in DOMAIN rows |-> ParseRow(rows[j])]

\* enumerate(headers) visits the positions in order and a dict keeps the
\* last value stored under a key
LastIndexOf(hs, col) ==
    CHOOSE i \in DOMAIN hs : hs[i] = col /\ \A h \in DOMAIN hs : hs[h] = col => h <= i

\* faulty variant of Column: the rows are walked last to first
Column_reversed(raw, idx) == [j \in DOMAIN raw |-> raw[Len(raw) + 1 - j][idx]]

\* tuple(row[idx] for row in raw_data)
Column(raw, idx) == [j \in DOMAIN raw |-> raw[j][idx]]

\* row[idx] raises IndexError when a row has no cell at a header position
TableIndexError(hs, raw) == \E idx \in DOMAIN hs : \E j \in DOMAIN raw : Len(raw[j]) < idx

BuildTable(hs, raw) == [col \in Range(hs) |-> Column(raw, LastIndexOf(hs, col))]

EmptyTable == [col \in {} |-> <<>>]

(***************************************************************************)
(* Invocations and input files.                                            *)
(***************************************************************************)
OutPath == "result.png"
TitleChoices == {None, "", "Flight 1"}

\* every combination of --title, --verbose, --out and --no-view
Invocations ==
    [title : TitleChoices, verbose : BOOLEAN, out : {None, OutPath}, no_view : BOOLEAN]

\* the plain invocation: TELEMETRY_FILE alone, or with --verbose
Plain(verbose) == [title |-> None, verbose |-> verbose, out |-> None, no_view |-> FALSE]

\* what the OUTPUT path holds before the run
OutFileBefore(a) == IF a.out = None THEN {"absent"} ELSE {"absent", "prior"}

HeaderOf(S) == SelectSeq(AllColumns, LAMBDA c : c \in S)

ZeroRow(hs) == [i \in DOMAIN hs |-> "0"]

\* files with any subset of the eight columns and one data row
ColumnFiles == {<<HeaderOf(S), ZeroRow(HeaderOf(S))>> : S \in SUBSET Range(AllColumns)}

\* a data row that is not one numeric cell per header position
DefectKinds == {"nonnumeric", "empty_cell", "short", "long"}
DefectRow(hs, kind) ==
    CASE kind = "nonnumeric" -> [ZeroRow(hs) EXCEPT ![1] = "x"]
      [] kind = "empty_cell" -> [ZeroRow(hs) EXCEPT ![Len(hs)] = ""]
      [] kind = "short" -> SubSeq(ZeroRow(hs), 1, Len(hs) - 1)
      [] kind = "long" -> Append(ZeroRow(hs), "1")

\* files with the six or the eight columns and 0..MaxRows data rows, at
\* most one of them defective
RowFiles ==
    {<<hs>> \o [j \in 1..n |-> ZeroRow(hs)] :
        hs \in {BaseColumns, AllColumns}, n \in 0..MaxRows}
    \cup
    {<<hs>> \o [j \in 1..n |-> IF j = d THEN DefectRow(hs, kind) ELSE ZeroRow(hs)] :
        hs \in {BaseColumns, AllColumns}, n \in 1..MaxRows, d \in 1..MaxRows,
        kind \in DefectKinds}

SeqsUpTo(S, n) == UNION {[1..m -> S] : m \in 0..n}

\* small files of any shape: no header row, repeated header names, ragged rows
LoadNames == {"Q", "AoA"}
LoadTexts == {"0", "1.0"}
LoadFiles ==
    {<<>>} \cup
    {<<hs>> \o rows :
        hs \in SeqsUpTo(LoadNames, MaxLoadCols),
        rows \in SeqsUpTo(SeqsUpTo(LoadTexts, MaxLoadCols), MaxLoadRows)}

\* a row of the eight columns whose cells are "0" except those given
RowWith(cells) ==
    [i \in DOMAIN AllColumns |->
        IF AllColumns[i] \in DOMAIN cells THEN cells[AllColumns[i]] ELSE "0"]

\* eight-column files whose TimeSinceMark and AoA cells vary freely
AoaTexts == {"0", "1"}
AoaFiles ==
    {<<AllColumns>> \o [j \in 1..n |-> RowWith([TimeSinceMark |-> t[j], AoA |-> a[j]])] :
        <<n, t, a>> \in UNION {{n} \X [1..n -> AoaTexts] \X [1..n -> AoaTexts] :
                                 n \in 0..MaxAoaRows}}

\* eight-column files whose DeltaVExpended and SpeedOrbital cells vary freely
DvTexts == {"0", "1", TwoTo60, "inf"}
DvFiles ==
    {<<AllColumns>> \o
        [j \in 1..n |-> RowWith([DeltaVExpended |-> d[j], SpeedOrbital |-> s[j]])] :
        <<n, d, s>> \in UNION {{n} \X [1..n -> DvTexts] \X [1..n -> DvTexts] :
                                 n \in 0..MaxDvRows}}

NoFigure == [created |-> FALSE, figsize |-> <<>>, suptitle |-> None,
             charts |-> <<>>, adjusted |-> FALSE]

Init ==
    /\ pc = "parse_args"
    /\ \/ args \in Invocations /\ telemetry_file \in ColumnFiles \cup RowFiles
       \/ args = Plain(FALSE) /\ telemetry_file \in LoadFiles
       \/ args = Plain(TRUE) /\ telemetry_file \in AoaFiles \cup DvFiles
    /\ out_file \in OutFileBefore(args)
    /\ telemetry_handle = "unopened"
    /\ out_handle = "unopened"
    /\ rows_read = 0
    /\ headers = <<>>
    /\ raw_data = <<>>
    /\ telemetry_data = EmptyTable
    /\ fig = NoFigure
    /\ stdout = <<>>
    /\ stderr = <<>>
    /\ events = <<>>
    /\ exit_status = {}
    /\ uncaught = None

(***************************************************************************)
(* Process exit.                                                           *)
(***************************************************************************)
\* sys.exit(n), lines 61, 139, 153
Exit(n) ==
    /\ pc' = "exited"
    /\ exit_status' = {n}
    /\ uncaught' = None

\* an exception nothing catches: the interpreter prints the traceback to
\* standard error and exits with status 1
Raise(exception) ==
    /\ pc' = "exited"
    /\ exit_status' = {1}
    /\ uncaught' = exception
    /\ stderr' = Append(stderr, Traceback)

(***************************************************************************)
(* Lines 54-72: arguments and load.                                        *)
(***************************************************************************)
\* line 54: FileType('r') opens TELEMETRY_FILE; FileType('wb') opens OUTPUT,
\* creating it or truncating what it held
ParseArgs ==
    /\ pc = "parse_args"
    /\ telemetry_handle' = "open"
    /\ IF args.out # None
          THEN /\ out_handle' = "open"
               /\ out_file' = "empty"
               /\ events' = events \o <<"open_telemetry", "open_out">>
          ELSE /\ UNCHANGED <<out_handle, out_file>>
               /\ events' = Append(events, "open_telemetry")
    /\ pc' = "check_dependent"
    /\ UNCHANGED <<args, telemetry_file, rows_read, headers, raw_data, telemetry_data,
                   fig, stdout, stderr, exit_status, uncaught>>

\* faulty variant of DependentViolation: the "not" is lost
DependentViolation_inverted(a) == a.no_view /\ a.out # None

\* line 57: args.no_view and not args.out (an open file object is truthy)
DependentViolation(a) == a.no_view /\ a.out = None

\* lines 57-61
CheckDependent ==
    /\ pc = "check_dependent"
    /\ IF DependentViolation(args)
          THEN /\ stderr' = stderr \o <<UsageLine, NoViewDiagnostic>>
               /\ Exit(2)
          ELSE /\ pc' = "banner"
               /\ UNCHANGED <<stderr, exit_status, uncaught>>
    /\ UNCHANGED <<args, telemetry_file, telemetry_handle, out_handle, out_file,
                   rows_read, headers, raw_data, telemetry_data, fig, stdout, events>>

\* line 63
PrintBanner ==
    /\ pc = "banner"
    /\ stdout' = Append(stdout, Banner)
    /\ pc' = "loading"
    /\ UNCHANGED <<args, telemetry_file, telemetry_handle, out_handle, out_file,
                   rows_read, headers, raw_data, telemetry_data, fig, stderr, events,
                   exit_status, uncaught>>

\* line 65
PrintLoading ==
    /\ pc = "loading"
    /\ stdout' = Append(stdout, LoadingMessage)
    /\ pc' = "read_header"
    /\ UNCHANGED <<args, telemetry_file, telemetry_handle, out_handle, out_file,
                   rows_read, headers, raw_data, telemetry_data, fig, stderr, events,
                   exit_status, uncaught>>

\* lines 67-68: next(reader) raises StopIteration on a file with no row
ReadHeader ==
    /\ pc = "read_header"
    /\ IF Len(telemetry_file) = 0
          THEN /\ Raise("StopIteration")
               /\ UNCHANGED <<headers, rows_read>>
          ELSE /\ headers' = telemetry_file[1]
               /\ rows_read' = 1
               /\ pc' = "read_rows"
               /\ UNCHANGED <<stderr, exit_status, uncaught>>
    /\ UNCHANGED <<args, telemetry_file, telemetry_handle, out_handle, out_file,
                   raw_data, telemetry_data, fig, stdout, events>>

\* line 69: the reader is consumed row by row; float() raises ValueError
\* at the first cell that is not a number
ReadRows ==
    /\ pc = "read_rows"
    /\ LET rows == DataRows(telemetry_file)
           bad == FirstBadRow(rows)
       IN  IF bad # 0
              THEN /\ rows_read' = 1 + bad
                   /\ Raise("ValueError")
                   /\ UNCHANGED raw_data
              ELSE /\ rows_read' = 1 + Len(rows)
                   /\ raw_data' = ParseRows(rows)
                   /\ pc' = "build_table"
                   /\ UNCHANGED <<stderr, exit_status, uncaught>>
    /\ UNCHANGED <<args, telemetry_file, telemetry_handle, out_handle, out_file,
                   headers, telemetry_data, fig, stdout, events>>

\* lines 70-71
BuildColumns ==
    /\ pc = "build_table"
    /\ IF TableIndexError(headers, raw_data)
          THEN /\ Raise("IndexError")
               /\ UNCHANGED telemetry_data
          ELSE /\ telemetry_data' = BuildTable(headers, raw_data)
               /\ pc' = "close_telemetry"
               /\ UNCHANGED <<stderr, exit_status, uncaught>>
    /\ UNCHANGED <<args, telemetry_file, telemetry_handle, out_handle, out_file,
                   rows_read, headers, raw_data, fig, stdout, events>>

\* line 72
CloseTelemetry ==
    /\ pc = "close_telemetry"
    /\ telemetry_handle' = "closed"
    /\ events' = Append(events, "close_telemetry")
    /\ pc' = "figure"
    /\ UNCHANGED <<args, telemetry_file, out_handle, out_file, rows_read, headers,
                   raw_data, telemetry_data, fig, stdout, stderr, exit_status, uncaught>>

(***************************************************************************)
(* Lines 75-141: the figure and the rendering block.                       *)
(***************************************************************************)
\* lines 75-77
arrange_subplots == IF args.verbose THEN <<2, 3>> ELSE <<2, 2>>

\* truth value of a str-or-None option (line 82)
Truthy(s) == s # None /\ s # ""

\* lines 80-83
CreateFigure ==
    /\ pc = "figure"
    /\ fig' = [created |-> TRUE,
               figsize |-> IF args.verbose THEN <<14, 6>> ELSE <<10, 6>>,
               suptitle |-> IF Truthy(args.title) THEN args.title ELSE None,
               charts |-> <<>>,
               adjusted |-> FALSE]
    /\ pc' = "launch_profile"
    /\ UNCHANGED <<args, telemetry_file, telemetry_handle, out_handle, out_file,
                   rows_read, headers, raw_data, telemetry_data, stdout, stderr,
                   events, exit_status, uncaught>>

\* telemetry_data[col] raises KeyError when the file had no such column
Has(col) == col \in DOMAIN telemetry_data

\* one plt.plot call
Line(x, y, label) == [x |-> x, y |-> y, label |-> label]

\* one finished subplot: plt.subplot, plt.plot, title, labels, grid
Chart(n, lines, title, xlabel, ylabel, legend) ==
    [grid |-> arrange_subplots, pos |-> n, lines |-> lines, title |-> title,
     xlabel |-> xlabel, ylabel |-> ylabel, legend |-> legend, gridlines |-> TRUE]

\* a subplot the block left before its title was set
Unfinished(n, lines) ==
    [grid |-> arrange_subplots, pos |-> n, lines |-> lines, title |-> None,
     xlabel |-> None, ylabel |-> None, legend |-> None, gridlines |-> FALSE]

AddChart(c) == fig' = [fig EXCEPT !.charts = Append(@, c)]

KmSeries(s) == [i \in DOMAIN s |-> Km(s[i])]

\* faulty variant of SliceFrom: k taken as a 1-based position
SliceFrom_off_by_one(s, k) == SubSeq(s, k, Len(s))

\* s[k:], k >= 0
SliceFrom(s, k) == [i \in 1..(IF Len(s) > k THEN Len(s) - k ELSE 0) |-> s[i + k]]

\* lines 86-92
LaunchProfile ==
    /\ pc = "launch_profile"
    /\ IF Has("DownRange") /\ Has("AltitudeASL")
          THEN /\ AddChart(Chart(1,
                       <<Line(KmSeries(telemetry_data["DownRange"]),
                              KmSeries(telemetry_data["AltitudeASL"]), None)>>,
                       "Launch Profile", "Distance downrange (km)", "Altitude ASL (km)",
                       None))
               /\ pc' = "acceleration"
          ELSE /\ AddChart(Unfinished(1, <<>>))
               /\ pc' = "except_key_error"
    /\ UNCHANGED <<args, telemetry_file, telemetry_handle, out_handle, out_file,
                   rows_read, headers, raw_data, telemetry_data, stdout, stderr,
                   events, exit_status, uncaught>>

\* lines 94-99
Acceleration ==
    /\ pc = "acceleration"
    /\ IF Has("TimeSinceMark") /\ Has("Acceleration")
          THEN /\ AddChart(Chart(2,
                       <<Line(telemetry_data["TimeSinceMark"],
                              telemetry_data["Acceleration"], None)>>,
                       "Acceleration", "MET (s)", "Acceleration (g)", None))
               /\ pc' = "orbital_velocity"
          ELSE /\ AddChart(Unfinished(2, <<>>))
               /\ pc' = "except_key_error"
    /\ UNCHANGED <<args, telemetry_file, telemetry_handle, out_handle, out_file,
                   rows_read, headers, raw_data, telemetry_data, stdout, stderr,
                   events, exit_status, uncaught>>

\* lines 101-106
OrbitalVelocity ==
    /\ pc = "orbital_velocity"
    /\ IF Has("TimeSinceMark") /\ Has("SpeedOrbital")
          THEN /\ AddChart(Chart(3,
                       <<Line(telemetry_data["TimeSinceMark"],
                              telemetry_data["SpeedOrbital"], None)>>,
                       "Orbital Velocity", "MET (s)", "Orbital velocity (m/s)", None))
               /\ pc' = "dynamic_pressure"
          ELSE /\ AddChart(Unfinished(3, <<>>))
               /\ pc' = "except_key_error"
    /\ UNCHANGED <<args, telemetry_file, telemetry_handle, out_handle, out_file,
                   rows_read, headers, raw_data, telemetry_data, stdout, stderr,
                   events, exit_status, uncaught>>

\* lines 108-116: after the fourth chart the block is over unless verbose
DynamicPressure ==
    /\ pc = "dynamic_pressure"
    /\ IF Has("AltitudeASL") /\ Has("Q")
          THEN /\ AddChart(Chart(4,
                       <<Line(KmSeries(telemetry_data["AltitudeASL"]),
                              telemetry_data["Q"], None)>>,
                       "Dynamic Pressure", "Altitude ASL (km)", "Q (Pa)", None))
               /\ pc' = IF args.verbose THEN "angle_of_attack" ELSE "subplots_adjust"
          ELSE /\ AddChart(Unfinished(4, <<>>))
               /\ pc' = "except_key_error"
    /\ UNCHANGED <<args, telemetry_file, telemetry_handle, out_handle, out_file,
                   rows_read, headers, raw_data, telemetry_data, stdout, stderr,
                   events, exit_status, uncaught>>

\* lines 118-119: both series without their first three samples
AoaSeries(t) == Line(SliceFrom(t["TimeSinceMark"], 3), SliceFrom(t["AoA"], 3), None)

\* lines 117-123
AngleOfAttack ==
    /\ pc = "angle_of_attack"
    /\ IF Has("TimeSinceMark") /\ Has("AoA")
          THEN /\ AddChart(Chart(5, <<AoaSeries(telemetry_data)>>,
                       "Angle of Attack", "MET (s)", "AoA (deg)", None))
               /\ pc' = "delta_v"
          ELSE /\ AddChart(Unfinished(5, <<>>))
               /\ pc' = "except_key_error"
    /\ UNCHANGED <<args, telemetry_file, telemetry_handle, out_handle, out_file,
                   rows_read, headers, raw_data, telemetry_data, stdout, stderr,
                   events, exit_status, uncaught>>

\* faulty variant of DvLost: the reference speed is read at every index
DvLost_moving_reference(dv_exp, speed) ==
    [i \in DOMAIN dv_exp |-> FAdd(FSub(dv_exp[i], speed[i]), speed[i])]

\* lines 128-130: tan_vel is SpeedOrbital[0], read once
DvLost(dv_exp, speed) ==
    LET tan_vel == speed[1]
    IN  [i \in DOMAIN dv_exp |-> FAdd(FSub(dv_exp[i], speed[i]), tan_vel)]

\* faulty variant of DvIndexError: the read of SpeedOrbital[0] is forgotten
DvIndexError_no_reference(dv_exp, speed) == Len(speed) < Len(dv_exp)

\* SpeedOrbital[0] and SpeedOrbital[i] raise IndexError past the end
DvIndexError(dv_exp, speed) == Len(speed) = 0 \/ Len(speed) < Len(dv_exp)

\* lines 125-136: the expended series is plotted before tan_vel is read
DeltaVExpenditure ==
    /\ pc = "delta_v"
    /\ IF ~(Has("TimeSinceMark") /\ Has("DeltaVExpended"))
          THEN /\ AddChart(Unfinished(6, <<>>))
               /\ pc' = "except_key_error"
               /\ UNCHANGED <<stderr, exit_status, uncaught>>
          ELSE LET expended == Line(telemetry_data["TimeSinceMark"],
                                    telemetry_data["DeltaVExpended"], "dv Expended")
               IN  IF ~Has("SpeedOrbital")
                      THEN /\ AddChart(Unfinished(6, <<expended>>))
                           /\ pc' = "except_key_error"
                           /\ UNCHANGED <<stderr, exit_status, uncaught>>
                      ELSE IF DvIndexError(telemetry_data["DeltaVExpended"],
                                           telemetry_data["SpeedOrbital"])
                      THEN /\ AddChart(Unfinished(6, <<expended>>))
                           /\ Raise("IndexError")
                      ELSE /\ AddChart(Chart(6,
                                   <<expended,
                                     Line(telemetry_data["TimeSinceMark"],
                                          DvLost(telemetry_data["DeltaVExpended"],
                                                 telemetry_data["SpeedOrbital"]),
                                          "dv Lost")>>,
                                   "Delta-v Expenditure", "MET (s)", "dv (m/s)",
                                   "upper left"))
                           /\ pc' = "subplots_adjust"
                           /\ UNCHANGED <<stderr, exit_status, uncaught>>
    /\ UNCHANGED <<args, telemetry_file, telemetry_handle, out_handle, out_file,
                   rows_read, headers, raw_data, telemetry_data, stdout, events>>

\* faulty variant of ExceptKeyError: the handler reports and falls through
ExceptKeyError_falls_through ==
    /\ pc = "except_key_error"
    /\ stdout' = Append(stdout, KeyErrorMessage)
    /\ pc' = "subplots_adjust"
    /\ UNCHANGED <<args, telemetry_file, telemetry_handle, out_handle, out_file,
                   rows_read, headers, raw_data, telemetry_data, fig, stderr, events,
                   exit_status, uncaught>>

\* lines 137-139
ExceptKeyError ==
    /\ pc = "except_key_error"
    /\ stdout' = Append(stdout, KeyErrorMessage)
    /\ Exit(1)
    /\ UNCHANGED <<args, telemetry_file, telemetry_handle, out_handle, out_file,
                   rows_read, headers, raw_data, telemetry_data, fig, stderr, events>>

\* line 141
SubplotsAdjust ==
    /\ pc = "subplots_adjust"
    /\ fig' = [fig EXCEPT !.adjusted = TRUE]
    /\ pc' = "save"
    /\ UNCHANGED <<args, telemetry_file, telemetry_handle, out_handle, out_file,
                   rows_read, headers, raw_data, telemetry_data, stdout, stderr,
                   events, exit_status, uncaught>>

(***************************************************************************)
(* Lines 143-153: output.                                                  *)
(***************************************************************************)
\* line 143
SaveRequested(a) == a.out # None

\* lines 143-146
Save ==
    /\ pc = "save"
    /\ IF SaveRequested(args)
          THEN /\ stdout' = Append(stdout, SavingMessage)
               /\ out_file' = "image"
               /\ out_handle' = "closed"
               /\ events' = events \o <<"savefig", "close_out">>
          ELSE UNCHANGED <<stdout, out_file, out_handle, events>>
    /\ pc' = "view"
    /\ UNCHANGED <<args, telemetry_file, telemetry_handle, rows_read, headers, raw_data,
                   telemetry_data, fig, stderr, exit_status, uncaught>>

\* faulty variant of ViewRequested: the "not" is lost
ViewRequested_inverted(a) == a.no_view

\* line 148
ViewRequested(a) == ~a.no_view

\* lines 148-150: plt.show() does not return until the window is closed
View ==
    /\ pc = "view"
    /\ IF ViewRequested(args)
          THEN /\ stdout' = Append(stdout, PreviewMessage)
               /\ events' = Append(events, "show")
               /\ pc' = "viewer"
          ELSE /\ pc' = "done"
               /\ UNCHANGED <<stdout, events>>
    /\ UNCHANGED <<args, telemetry_file, telemetry_handle, out_handle, out_file,
                   rows_read, headers, raw_data, telemetry_data, fig, stderr,
                   exit_status, uncaught>>

\* the user closes the viewer window and plt.show() returns
DismissViewer ==
    /\ pc = "viewer"
    /\ events' = Append(events, "dismiss")
    /\ pc' = "done"
    /\ UNCHANGED <<args, telemetry_file, telemetry_handle, out_handle, out_file,
                   rows_read, headers, raw_data, telemetry_data, fig, stdout, stderr,
                   exit_status, uncaught>>

\* faulty variant of Done: "Done" is printed after sys.exit, that is, never
Done_silent ==
    /\ pc = "done"
    /\ Exit(0)
    /\ UNCHANGED <<args, telemetry_file, telemetry_handle, out_handle, out_file,
                   rows_read, headers, raw_data, telemetry_data, fig, stdout, stderr,
                   events>>

\* lines 152-153
Done ==
    /\ pc = "done"
    /\ stdout' = Append(stdout, DoneMessage)
    /\ Exit(0)
    /\ UNCHANGED <<args, telemetry_file, telemetry_handle, out_handle, out_file,
                   rows_read, headers, raw_data, telemetry_data, fig, stderr, events>>

Next ==
    \/ ParseArgs
    \/ CheckDependent
    \/ PrintBanner
    \/ PrintLoading
    \/ ReadHeader
    \/ ReadRows
    \/ BuildColumns
    \/ CloseTelemetry
    \/ CreateFigure
    \/ LaunchProfile
    \/ Acceleration
    \/ OrbitalVelocity
    \/ DynamicPressure
    \/ AngleOfAttack
    \/ DeltaVExpenditure
    \/ ExceptKeyError
    \/ SubplotsAdjust
    \/ Save
    \/ View
    \/ DismissViewer
    \/ Done

Spec == Init /\ [][Next]_vars

(***************************************************************************)
(* Vocabulary of the properties.                                           *)
(***************************************************************************)
Exited == pc = "exited"
ExitedWith(n) == Exited /\ exit_status = {n}
Happened(e) == e \in Range(events)
Printed(m) == m \in Range(stdout)

\* lines 67-71 have completed
Loaded == pc = "close_telemetry" \/ Happened("close_telemetry")

\* a header row of distinct names, then rows of one numeric cell per header
ValidInput(file) ==
    /\ Len(file) >= 1
    /\ \A i, j \in DOMAIN file[1] : file[1][i] = file[1][j] => i = j
    /\ \A r \in 2..Len(file) : Len(file[r]) = Len(file[1]) /\ RowParses(file[r])

RequiredColumns(verbose) ==
    Range(BaseColumns) \cup (IF verbose THEN Range(VerboseColumns) ELSE {})

\* the finished charts of the figure at position n
ChartsAt(n) == {i \in DOMAIN fig.charts : fig.charts[i].pos = n /\ fig.charts[i].title # None}

Before(e, f) ==
    \A i, j \in DOMAIN events : events[i] = e /\ events[j] = f => i < j

IsPrefix(s, t) == Len(s) <= Len(t) /\ \A i \in DOMAIN s : s[i] = t[i]

(***************************************************************************)
(* C1.  --no-view without --out: the process exits with status 2 after     *)
(* printing the usage line and the diagnostic to stderr; nothing is        *)
(* printed to stdout, no row of the telemetry file is read, and no figure  *)
(* is created, saved or shown.                                             *)
(***************************************************************************)
C1_NoViewWithoutOut ==
    (args.no_view /\ args.out = None) =>
        /\ pc \in {"parse_args", "check_dependent", "exited"}
        /\ ~Exited => ENABLED Next
        /\ stdout = <<>>
        /\ rows_read = 0
        /\ ~fig.created
        /\ ~Happened("savefig") /\ ~Happened("show")
        /\ out_file = "absent"
        /\ Exited => /\ exit_status = {2}
                     /\ uncaught = None
                     /\ stderr = <<UsageLine, NoViewDiagnostic>>

C1_Witness ==
    /\ args.no_view /\ args.out = None
    /\ args.verbose /\ args.title = "Flight 1"
    /\ Len(telemetry_file) > 1
    /\ ExitedWith(2)

(***************************************************************************)
(* C2.  A well-formed CSV without column Q, non-verbose: the process exits *)
(* with status 1 after the diagnostic, and at exit the --out path holds    *)
(* what it held before the run - nothing was written to it by the save     *)
(* step or by opening it for writing.                                      *)
(***************************************************************************)
C2_MissingQWritesNoFile ==
    (/\ Exited
     /\ ~DependentViolation(args)
     /\ ~args.verbose
     /\ ValidInput(telemetry_file)
     /\ Len(telemetry_file[1]) >= 1
     /\ "Q" \notin Range(telemetry_file[1]))
    => /\ exit_status = {1}
       /\ Printed(KeyErrorMessage)
       /\ ~Happened("savefig")
       /\ out_file \in {"absent", "prior"}

\* the part of C2 the script does satisfy: exit 1, diagnostic, no save step
C2_MissingQExitsWithoutSave ==
    (/\ Exited
     /\ ~DependentViolation(args)
     /\ ~args.verbose
     /\ ValidInput(telemetry_file)
     /\ Len(telemetry_file[1]) >= 1
     /\ "Q" \notin Range(telemetry_file[1]))
    => /\ exit_status = {1}
       /\ Printed(KeyErrorMessage)
       /\ ~Happened("savefig")
       /\ out_file # "image"

(***************************************************************************)
(* C3.  On every exit path every file handle opened during the run has     *)
(* been explicitly closed when the process terminates.                     *)
(***************************************************************************)
C3_HandlesClosedAtExit ==
    Exited => telemetry_handle # "open" /\ out_handle # "open"

(***************************************************************************)
(* C4.  On a run that reaches the output step: the figure is saved iff     *)
(* --out was given, the viewer is opened iff --no-view was not given, the  *)
(* save and the close of the target precede the viewer, at least one of    *)
(* the two happens, and with --out and --no-view the run never waits on a  *)
(* viewer.  Nothing is saved or shown before the output step.              *)
(***************************************************************************)
C4_OutputDispatch ==
    /\ (pc \in {"view", "viewer", "done"} \/ ExitedWith(0)) =>
          /\ Happened("savefig") <=> args.out # None
          /\ Happened("close_out") <=> args.out # None
          /\ out_file = "image" <=> args.out # None
          /\ args.out # None => out_handle = "closed"
    /\ (pc \in {"viewer", "done"} \/ ExitedWith(0)) =>
          /\ Happened("show") <=> ~args.no_view
          /\ Happened("savefig") \/ Happened("show")
    /\ Before("savefig", "show") /\ Before("close_out", "show")
    /\ args.no_view => pc # "viewer" /\ ~Happened("show")
    /\ (Happened("savefig") \/ Happened("show")) =>
          (pc \in {"view", "viewer", "done"} \/ ExitedWith(0))
    /\ (Exited /\ ~ExitedWith(0)) => ~Happened("savefig") /\ ~Happened("show")

C4_Witness ==
    /\ ExitedWith(0)
    /\ args.out # None /\ ~args.no_view
    /\ Happened("savefig") /\ Happened("show")

(***************************************************************************)
(* C5.  For every valid input the loader produces a table with one entry   *)
(* per header name, every column of length R (the number of data rows),   *)
(* and element j of a column is the cell of data row j at the column's     *)
(* header position.                                                        *)
(***************************************************************************)
C5_LoaderTable ==
    (ValidInput(telemetry_file) /\ ~DependentViolation(args)) =>
        /\ Exited => Loaded
        /\ Loaded =>
              /\ DOMAIN telemetry_data = Range(telemetry_file[1])
              /\ \A i \in DOMAIN telemetry_file[1] :
                    LET column == telemetry_data[telemetry_file[1][i]]
                    IN  /\ Len(column) = Len(telemetry_file) - 1
                        /\ \A j \in 1..(Len(telemetry_file) - 1) :
                              column[j] = ParseFloat(telemetry_file[j + 1][i])

C5_Witness ==
    /\ ValidInput(telemetry_file)
    /\ Loaded
    /\ Len(telemetry_file) = 3
    /\ Len(telemetry_file[1]) = 2
    /\ telemetry_data["Q"] = <<Fin(0), Fin(1)>>
    /\ telemetry_data["AoA"] = <<Fin(1), Fin(0)>>

(***************************************************************************)
(* C6.  If a column required for the active mode is absent from the        *)
(* loaded table, the run ends with status 1 without reaching the layout    *)
(* pass, the save step or the display step, whatever was drawn before; in  *)
(* non-verbose mode the absence of AoA and DeltaVExpended causes no        *)
(* failure.                                                                *)
(***************************************************************************)
C6_MissingColumn ==
    /\ (Loaded /\ ~(RequiredColumns(args.verbose) \subseteq DOMAIN telemetry_data)) =>
          /\ pc \notin {"subplots_adjust", "save", "view", "viewer", "done"}
          /\ ~Exited => ENABLED Next
          /\ ~fig.adjusted
          /\ ~Happened("savefig") /\ ~Happened("show")
          /\ out_file # "image"
          /\ Exited => /\ exit_status = {1}
                       /\ uncaught = None
                       /\ stdout = <<Banner, LoadingMessage, KeyErrorMessage>>
    /\ (Loaded /\ ~args.verbose /\ Range(BaseColumns) \subseteq DOMAIN telemetry_data) =>
          /\ pc # "except_key_error"
          /\ Exited => exit_status = {0}

C6_Witness ==
    /\ ExitedWith(1)
    /\ uncaught = None
    /\ args.verbose /\ args.out # None
    /\ "DeltaVExpended" \notin DOMAIN telemetry_data
    /\ ChartsAt(5) # {}

\* the converse case of C6: six columns only, non-verbose, exit 0
C6_WitnessConverse ==
    /\ ExitedWith(0)
    /\ ~args.verbose
    /\ DOMAIN telemetry_data = Range(BaseColumns)

(***************************************************************************)
(* C7.  Standard output is a prefix of: banner, "Loading", "Saving graph   *)
(* to" (exactly when the save step runs), "Opening preview" (exactly when  *)
(* the viewer opens), "Done"; "Done" is printed iff the exit status is 0,  *)
(* after the save completed and the viewer was dismissed.  Six base        *)
(* columns, 5 numeric rows, --out with --no-view: banner, loading, saving, *)
(* Done, exit 0.                                                           *)
(***************************************************************************)
ProgressMessages(a) ==
    <<Banner, LoadingMessage>>
    \o (IF a.out # None THEN <<SavingMessage>> ELSE <<>>)
    \o (IF ~a.no_view THEN <<PreviewMessage>> ELSE <<>>)
    \o <<DoneMessage>>

C7_ProgressOrder ==
    /\ IsPrefix(SelectSeq(stdout, LAMBDA m : m # KeyErrorMessage), ProgressMessages(args))
    /\ Printed(KeyErrorMessage) => stdout = <<Banner, LoadingMessage, KeyErrorMessage>>
    /\ Printed(SavingMessage) <=> Happened("savefig")
    /\ Printed(PreviewMessage) <=> Happened("show")
    /\ Printed(DoneMessage) <=> ExitedWith(0)
    /\ Printed(DoneMessage) =>
          /\ stdout[Len(stdout)] = DoneMessage
          /\ Happened("show") => Happened("dismiss")
          /\ args.out # None =>
                out_file = "image" /\ out_handle = "closed" /\ Happened("close_out")
    /\ (/\ Exited
        /\ Len(telemetry_file) = 6
        /\ telemetry_file[1] = BaseColumns
        /\ ValidInput(telemetry_file)
        /\ args.out # None /\ args.no_view /\ ~args.verbose)
       => /\ stdout = <<Banner, LoadingMessage, SavingMessage, DoneMessage>>
          /\ exit_status = {0}
          /\ ~Happened("show")

C7_Witness ==
    /\ ExitedWith(0)
    /\ Len(telemetry_file) = 6
    /\ telemetry_file[1] = BaseColumns
    /\ ValidInput(telemetry_file)
    /\ args.out # None /\ args.no_view /\ ~args.verbose
    /\ stdout = <<Banner, LoadingMessage, SavingMessage, DoneMessage>>

(***************************************************************************)
(* C8.  Verbose mode, N data rows: the x and y series of the Angle of      *)
(* Attack chart both drop the first 3 samples - length N - 3 when N > 3,   *)
(* element k the original element k + 3 - and for N <= 3 both are empty    *)
(* and the chart is drawn without failure.                                 *)
(***************************************************************************)
C8_AoaTrimming ==
    /\ \A c \in ChartsAt(5) :
          LET x == fig.charts[c].lines[1].x
              y == fig.charts[c].lines[1].y
              N == rows_read - 1
          IN  /\ Len(telemetry_data["TimeSinceMark"]) = N
              /\ Len(telemetry_data["AoA"]) = N
              /\ Len(x) = (IF N > 3 THEN N - 3 ELSE 0)
              /\ Len(y) = (IF N > 3 THEN N - 3 ELSE 0)
              /\ \A k \in 1..(N - 3) :
                    /\ x[k] = telemetry_data["TimeSinceMark"][k + 3]
                    /\ y[k] = telemetry_data["AoA"][k + 3]
    /\ (/\ Loaded
        /\ args.verbose
        /\ RequiredColumns(FALSE) \cup {"AoA"} \subseteq DOMAIN telemetry_data
        /\ pc \notin {"close_telemetry", "figure", "launch_profile", "acceleration",
                      "orbital_velocity", "dynamic_pressure", "angle_of_attack"})
       => ChartsAt(5) # {}

C8_Witness ==
    /\ ChartsAt(5) # {}
    /\ rows_read - 1 = 4
    /\ telemetry_data["TimeSinceMark"] = <<Fin(0), Fin(0), Fin(0), Fin(1)>>
    /\ telemetry_data["AoA"] = <<Fin(1), Fin(1), Fin(1), Fin(0)>>
    /\ fig.charts[5].lines[1].x = <<Fin(1)>>
    /\ fig.charts[5].lines[1].y = <<Fin(0)>>

\* the N <= 3 case of C8: an empty chart, drawn
C8_WitnessShort ==
    /\ ChartsAt(5) # {}
    /\ rows_read - 1 = 3
    /\ fig.charts[5].lines[1].x = <<>>
    /\ fig.charts[5].lines[1].y = <<>>

(***************************************************************************)
(* C9.  Verbose mode, N >= 1 rows: the delta-v lost series has N elements, *)
(* element i is DeltaVExpended[i] - SpeedOrbital[i] + SpeedOrbital[0] with *)
(* SpeedOrbital[0] read once; when both columns are constant zero the      *)
(* series is SpeedOrbital[0] at every index.                               *)
(***************************************************************************)
DvLostSeries(c) == fig.charts[c].lines[2].y

C9_DvLostFormula(c) ==
    LET dv_exp == telemetry_data["DeltaVExpended"]
        speed == telemetry_data["SpeedOrbital"]
        N == rows_read - 1
    IN  /\ N >= 1
        /\ Len(dv_exp) = N /\ Len(speed) = N
        /\ Len(DvLostSeries(c)) = N
        /\ \A i \in 1..N :
              DvLostSeries(c)[i] = FAdd(FSub(dv_exp[i], speed[i]), speed[1])
        /\ ((\A i \in 1..N : dv_exp[i] = Fin(0) /\ speed[i] = Fin(0)) =>
               \A i \in 1..N : DvLostSeries(c)[i] = speed[1])

\* a and b are finite and the float a - b is their exact difference: no
\* part of it is lost to rounding
ExactDifference(a, b) ==
    a.k = "fin" /\ b.k = "fin" /\ (a.hi - b.hi = 0 \/ a.lo - b.lo = 0)

\* C9 as stated: in addition, element 0 of the series equals DeltaVExpended[0]
C9_DvLostAsStated ==
    \A c \in ChartsAt(6) :
        /\ C9_DvLostFormula(c)
        /\ DvLostSeries(c)[1] = telemetry_data["DeltaVExpended"][1]

\* C9 as amended: element 0 of the series equals DeltaVExpended[0] when
\* DeltaVExpended[0] and SpeedOrbital[0] are finite and their difference is
\* computed without rounding
C9_DvLost ==
    \A c \in ChartsAt(6) :
        /\ C9_DvLostFormula(c)
        /\ ExactDifference(telemetry_data["DeltaVExpended"][1],
                           telemetry_data["SpeedOrbital"][1])
           => DvLostSeries(c)[1] = telemetry_data["DeltaVExpended"][1]

C9_Witness ==
    /\ ChartsAt(6) # {}
    /\ telemetry_data["DeltaVExpended"] = <<Fin(1), Fin(1)>>
    /\ telemetry_data["SpeedOrbital"] = <<Fin(1), Fin(0)>>
    /\ DvLostSeries(6) = <<Fin(1), Fin(2)>>

(***************************************************************************)
(* C10.  Verbose mode, all eight columns, no data row: the run never       *)
(* reaches the save step, the display step or "Done"; reading              *)
(* SpeedOrbital[0] raises an IndexError that the KeyError handler does not *)
(* catch and the process ends by the uncaught error.  Non-verbose, the     *)
(* same file renders and exits 0.                                          *)
(***************************************************************************)
HeaderOnly ==
    /\ Len(telemetry_file) = 1
    /\ Range(AllColumns) \subseteq Range(telemetry_file[1])
    /\ ~DependentViolation(args)

C10_Common ==
    /\ (HeaderOnly /\ args.verbose) =>
          /\ pc \notin {"except_key_error", "subplots_adjust", "save", "view", "viewer",
                        "done"}
          /\ ~Exited => ENABLED Next
          /\ ~Happened("savefig") /\ ~Happened("show")
          /\ ~Printed(DoneMessage) /\ ~Printed(KeyErrorMessage)
          /\ Exited => uncaught = "IndexError" /\ ChartsAt(5) # {}
    /\ (HeaderOnly /\ ~args.verbose) =>
          /\ uncaught = None
          /\ Exited => exit_status = {0} /\ Printed(DoneMessage) /\ ChartsAt(4) # {}

\* C10 as stated: the exit status is neither 0 nor the data-shape status 1
C10_HeaderOnlyAsStated ==
    /\ C10_Common
    /\ (HeaderOnly /\ args.verbose /\ Exited) => exit_status \cap {0, 1} = {}

\* C10 as amended: the uncaught error ends the process with Python's status
\* for an uncaught exception, 1, the traceback on stderr and no data-shape
\* message on stdout
C10_HeaderOnly ==
    /\ C10_Common
    /\ (HeaderOnly /\ args.verbose /\ Exited) =>
          /\ exit_status = {1}
          /\ stderr = <<Traceback>>
          /\ stdout = <<Banner, LoadingMessage>>

C10_Witness ==
    /\ HeaderOnly /\ args.verbose /\ Exited
    /\ uncaught = "IndexError"
    /\ args.out # None

=============================================================================
